---- MODULE Spec2Model ----
(***************************************************************************)
(* Model of Khaliya/agentkhaliya.py: the /stream handler of one call       *)
(* (specification Spec, and FairSpec for what must eventually happen) and  *)
(* the /make_call route (specification SpecHttp).                          *)
(*                                                                         *)
(* stream_from_twilio runs two activities over shared state:               *)
(*   - audio_generator, the request iterator that the recognition client   *)
(*     pulls while the streaming call is open (lines 106-119);             *)
(*   - the turn loop "for response in responses" (lines 125-134), which    *)
(*     calls generate_ai_response, text_to_speech_google and               *)
(*     play_audio_in_call one after the other.                             *)
(* The recognition engine, the generation engine, the synthesis engine and *)
(* the telephony provider are external: their answers are inputs.          *)
(***************************************************************************)
EXTENDS Integers, Sequences, FiniteSets, TLC

\* ------------------------------------------------------------------ bounds
MaxMsgs == 3        \* socket messages the peer sends before closing
MaxResp == 2        \* responses the recognition engine sends
MaxReqs == 3        \* requests made to /make_call

\* --------------------------------------------------------------- constants
NoSid == 0                           \* call_sid = None (line 96)
RENDER_APP_URL == "host"             \* line 24
NoUrl == <<>>                        \* text_to_speech_google returns None (line 79)

\* the fixed apology of line 59
Fallback == <<"sorry">>

\* texts the generation engine may answer with (response.text, line 54): a
\* reply with surrounding white space, and a reply of white space only
RawTexts == { <<" ", "a", " ">>, <<" ">> }

\* ----------------------------------------------------------- pure helpers
IsSpace(c) == c = " "

RECURSIVE LStrip(_)
LStrip(s) == IF s = <<>> THEN <<>>
             ELSE IF IsSpace(Head(s)) THEN LStrip(Tail(s)) ELSE s

RECURSIVE RStrip(_)
RStrip(s) == IF s = <<>> THEN <<>>
             ELSE IF IsSpace(s[Len(s)]) THEN RStrip(SubSeq(s, 1, Len(s) - 1)) ELSE s

\* str.strip() of line 54
Strip(s) == RStrip(LStrip(s))

\* base64: a payload is the transport encoding of a frame.  An encoded frame f
\* is the even number 2*f; an odd payload stands for incorrect padding, on which
\* base64.b64decode raises (line 119).
B64Valid(p) == p % 2 = 0
b64decode(p) == p \div 2

\* f"response_{call_sid}.mp3" (line 70)
\* mutant: one file name for every call
AudioFilenameShared(sid) == <<"response_", NoSid, ".mp3">>

AudioFilename(sid) == <<"response_", sid, ".mp3">>

\* f"https://{RENDER_APP_URL}/static/{audio_filename}" (line 74)
AudioUrl(sid) == <<"https://", RENDER_APP_URL, "/static/">> \o AudioFilename(sid)

\* ------------------------------------------------------- socket messages
\* json = FALSE: the envelope does not parse, or has no 'event' key:
\* json.loads or data['event'] raises (lines 111, 112).
StartMsg(s) == [json |-> TRUE,  event |-> "start", callSid |-> s, payload |-> 0]
MediaMsg(p) == [json |-> TRUE,  event |-> "media", callSid |-> NoSid, payload |-> p]
StopMsg     == [json |-> TRUE,  event |-> "stop",  callSid |-> NoSid, payload |-> 0]
MarkMsg     == [json |-> TRUE,  event |-> "mark",  callSid |-> NoSid, payload |-> 0]
GarbageMsg  == [json |-> FALSE, event |-> "<missing>", callSid |-> NoSid, payload |-> 0]

\* the kinds of message a peer sends.  "bad media" is a media event whose
\* payload has bad padding (a media event without 'payload' raises at the same
\* line 119); "mark" is any well-formed event other than start, media, stop.
Kinds == {"start", "media", "bad media", "stop", "mark", "garbage"}

\* the i-th message of the socket, of the given kind.  Call identifiers and
\* frames are numbered by the message that carries them (the start event at
\* position i carries callSid i, the media event at position i the frame i),
\* so that any two start events and any two frames can be told apart.
MsgAt(i, kind) ==
    CASE kind = "start"     -> StartMsg(i)
      [] kind = "media"     -> MediaMsg(2 * i)
      [] kind = "bad media" -> MediaMsg(2 * i + 1)
      [] kind = "stop"      -> StopMsg
      [] kind = "mark"      -> MarkMsg
      [] kind = "garbage"   -> GarbageMsg

\* the call identifiers start events can carry
Sids == 1..MaxMsgs

\* does handling m raise inside audio_generator (lines 111-119)?
Raises(m) == \/ ~m.json
             \/ m.event = "media" /\ ~B64Valid(m.payload)

\* ---------------------------------------------------- recognition responses
NoResults == [results |-> <<>>]
NoAlternatives == [results |-> << [alternatives |-> <<>>] >>]
Final(t) == [results |-> << [alternatives |-> << [transcript |-> t] >>] >>]

\* the k-th response of the stream: without results, without alternatives, or
\* the finalized transcript number k
ResponsesAt(k) == {NoResults, NoAlternatives, Final(k)}

\* line 126
Skipped(response) == \/ response.results = <<>>
                     \/ response.results[1].alternatives = <<>>

\* ------------------------------------------------------------------ state
VARIABLES
    ws,         \* the messages the peer sends on the socket, in order
    pos,        \* number of messages ws.receive() has returned
    call_sid,   \* the nonlocal call_sid (line 96, 107)
    gen,        \* audio_generator: "running", "done" (returned), "raised"
    frames,     \* the audio frames audio_generator has yielded, in order
    rec,        \* recognition stream: "open", "ended", "aborted"
    sent,       \* number of responses the recognition engine has sent
    produced,   \* the responses with a transcript among them, in order
    responses,  \* responses sent and not yet taken by the for loop
    pc,         \* the turn loop's position
    turn,       \* the loop body's locals and the adapter calls of the latest turn
    handled,    \* the transcripts a turn was started for, in order
    active,     \* the numbers of the turns started and not finished
    static,     \* the static/ directory: file name -> content
    error,      \* "Error during streaming" was printed (line 136)
    http        \* the /make_call route: the request in hand and what was answered

vars == <<ws, pos, call_sid, gen, frames, rec, sent, produced, responses, pc, turn,
          handled, active, static, error, http>>

Busy == {"GENERATING", "SYNTHESIZING", "INJECTING"}

NoFile == [exists |-> FALSE, audio |-> <<>>]

FileNames == {AudioFilename(s) : s \in Sids \cup {NoSid}}

\* the record of a turn: its number, the locals transcript, ai_response_text
\* (text) and audio_url (url), and for each adapter the arguments it was
\* called with and how it answered
NewTurn(n, t, sid) ==
    [no |-> n, stage |-> "GENERATING", transcript |-> t,
     gsid |-> sid, gout |-> "pending", raw |-> <<>>, text |-> <<>>,
     ssid |-> NoSid, stext |-> <<>>, sout |-> "none", url |-> NoUrl,
     plays |-> 0, psid |-> NoSid, purl |-> NoUrl, pout |-> "none", plogged |-> FALSE]

NoTurn == [NewTurn(0, 0, NoSid) EXCEPT !.stage = "NONE", !.gout = "none"]

\* /make_call before any request: no request in hand, nothing answered, no
\* call created at the provider
NoHttp == [pc |-> "idle", body |-> <<>>, number_to_call |-> <<>>,
           created |-> <<>>, replies |-> <<>>]

\* all sequences over S of length at most n
SeqsUpTo(S, n) == UNION {[1..k -> S] : k \in 0..n}

Init ==
    /\ ws \in {[i \in DOMAIN ks |-> MsgAt(i, ks[i])] : ks \in SeqsUpTo(Kinds, MaxMsgs)}
    /\ pos = 0
    /\ call_sid = NoSid
    /\ gen = "running"
    /\ frames = <<>>
    /\ rec = "open"
    /\ sent = 0
    /\ produced = <<>>
    /\ responses = <<>>
    /\ pc = "AWAIT_TRANSCRIPT"
    /\ turn = NoTurn
    /\ handled = <<>>
    /\ active = {}
    /\ static = [f \in FileNames |-> NoFile]
    /\ error = FALSE
    /\ http = NoHttp


\* ------------------------------------------------- audio_generator (106-119)
\* an exception leaves the generator; the recognition client, which is
\* iterating it, cancels the streaming call
GeneratorRaises ==
    /\ gen' = "raised"
    /\ rec' = "aborted"
    /\ UNCHANGED <<call_sid, frames>>

\* mutant: an event other than start forgets the call identifier
NextCallSidForgets(m) == IF m.event = "start" THEN m.callSid ELSE NoSid

\* lines 112-113: call_sid after the envelope m
NextCallSid(m) == IF m.event = "start" THEN m.callSid ELSE call_sid

\* mutant: an event that is not start or media ends the generator
HandleEventUnknownEnds(m) ==
    /\ call_sid' = NextCallSid(m)
    /\ IF m.event = "media"
       THEN /\ frames' = Append(frames, b64decode(m.payload))
            /\ UNCHANGED <<gen, rec>>
       ELSE IF m.event = "start"
            THEN UNCHANGED <<gen, frames, rec>>
            ELSE gen' = "done" /\ UNCHANGED <<frames, rec>>

\* mutant: the "break" of line 116 is missing, a stop event is passed over
HandleEventStopIgnored(m) ==
    /\ call_sid' = NextCallSid(m)
    /\ IF m.event = "media"
       THEN /\ frames' = Append(frames, b64decode(m.payload))
            /\ UNCHANGED <<gen, rec>>
       ELSE UNCHANGED <<gen, frames, rec>>

\* lines 112-119 for a parsed envelope with an 'event' key
HandleEvent(m) ==
    /\ call_sid' = NextCallSid(m)
    /\ IF m.event = "stop"
       THEN gen' = "done" /\ UNCHANGED <<frames, rec>>
       ELSE IF m.event = "media"
            THEN /\ frames' = Append(frames, b64decode(m.payload))
                 /\ UNCHANGED <<gen, rec>>
            ELSE UNCHANGED <<gen, frames, rec>>

\* mutant: the requests are pulled by the for loop itself, between two turns
RequestsPulledBetweenTurns == rec = "open" /\ pc = "AWAIT_TRANSCRIPT"

\* lines 122-123: the generator is handed to streaming_recognize, whose
\* request consumer iterates it for as long as the streaming call is open,
\* whatever the for loop of line 125 is doing
RequestsPulled == rec = "open"

\* one pass of the while loop
AudioGeneratorStep ==
    /\ gen = "running"
    /\ RequestsPulled
    /\ IF pos >= Len(ws)
       THEN \* ws.closed, or ws.receive() returned None (lines 108, 110)
            /\ gen' = "done"
            /\ UNCHANGED <<pos, call_sid, frames, rec>>
       ELSE LET m == ws[pos + 1] IN
            /\ pos' = pos + 1
            /\ IF Raises(m) THEN GeneratorRaises ELSE HandleEvent(m)
    /\ UNCHANGED <<http, error, sent, ws, produced, responses, pc, turn, handled, active, static>>

\* ------------------------------------------- recognition engine (line 123)
\* the engine answers the audio it is sent: once a frame has been forwarded
\* it may send a response at any time while the stream is open
RecognitionResponds ==
    /\ rec = "open"
    /\ sent < MaxResp
    /\ frames # <<>>
    /\ \E r \in ResponsesAt(sent + 1) :
          /\ sent' = sent + 1
          /\ produced' = IF Skipped(r) THEN produced ELSE Append(produced, r)
          /\ responses' = Append(responses, r)
    /\ UNCHANGED <<http, error, ws, pos, call_sid, gen, frames, rec, pc, turn, handled,
                   active, static>>

\* the engine closes the stream once the requests are exhausted
RecognitionEnds ==
    /\ rec = "open"
    /\ gen = "done"
    /\ rec' = "ended"
    /\ UNCHANGED <<http, error, sent, ws, pos, call_sid, gen, frames, produced, responses, pc, turn, handled, active, static>>

\* network or engine failure
RecognitionAborts ==
    /\ rec = "open"
    /\ rec' = "aborted"
    /\ UNCHANGED <<http, error, sent, ws, pos, call_sid, gen, frames, produced, responses, pc, turn, handled, active, static>>

\* ------------------------------------------------ the turn loop (125-134)
\* mutant: the next response is taken while the body is still running
LoopReadyOverlapping == TRUE

\* the for loop asks for the next response only when its body has finished
LoopReady == pc = "AWAIT_TRANSCRIPT"

\* mutant: the "continue" of line 126 is missing, a response without a
\* transcript starts a turn too
NextResponseNoSkip ==
    /\ LoopReady
    /\ responses # <<>>
    /\ LET response == Head(responses)
           t == IF Skipped(response) THEN 0
                ELSE response.results[1].alternatives[1].transcript IN
       /\ responses' = Tail(responses)
       /\ pc' = "GENERATING"
       /\ handled' = Append(handled, t)
       /\ turn' = NewTurn(Len(handled) + 1, t, call_sid)
       /\ active' = active \cup {Len(handled) + 1}
    /\ UNCHANGED <<http, error, sent, ws, pos, call_sid, gen, frames, rec, produced, static>>

\* lines 125-130: the loop takes the next response; a response without
\* results or alternatives is skipped, otherwise generate_ai_response is
\* called with the transcript and the current call_sid
NextResponse ==
    /\ LoopReady
    /\ responses # <<>>
    /\ LET response == Head(responses) IN
       /\ responses' = Tail(responses)
       /\ IF Skipped(response)
          THEN UNCHANGED <<pc, turn, handled, active>>
          ELSE LET t == response.results[1].alternatives[1].transcript IN
               /\ pc' = "GENERATING"
               /\ handled' = Append(handled, t)
               /\ turn' = NewTurn(Len(handled) + 1, t, call_sid)
               /\ active' = active \cup {Len(handled) + 1}
    /\ UNCHANGED <<http, error, sent, ws, pos, call_sid, gen, frames, rec, produced, static>>

\* mutant: the loop ends with the stream, leaving the responses not yet taken
LoopEndsEarly ==
    /\ pc = "AWAIT_TRANSCRIPT"
    /\ rec = "ended"
    /\ pc' = "CLOSED"
    /\ UNCHANGED <<http, error, sent, ws, pos, call_sid, gen, frames, rec, produced, responses, turn,
                   handled, active, static>>

\* the stream ended normally and every response was taken: the loop ends
LoopEnds ==
    /\ pc = "AWAIT_TRANSCRIPT"
    /\ responses = <<>>
    /\ rec = "ended"
    /\ pc' = "CLOSED"
    /\ UNCHANGED <<http, error, sent, ws, pos, call_sid, gen, frames, rec, produced, responses, turn,
                   handled, active, static>>

\* mutant: the handler opens the recognition stream again after an abort
LoopRaisesRetries ==
    /\ pc = "AWAIT_TRANSCRIPT"
    /\ rec = "aborted"
    /\ rec' = "open"
    /\ error' = TRUE
    /\ UNCHANGED <<http, sent, ws, pos, call_sid, gen, frames, pc, produced, responses, turn,
                   handled, active, static>>

\* the stream aborted: iterating responses raises and line 135 catches it.
\* The responses not yet taken are lost with the stream.
LoopRaises ==
    /\ pc = "AWAIT_TRANSCRIPT"
    /\ rec = "aborted"
    /\ pc' = "CLOSED"
    /\ error' = TRUE
    /\ UNCHANGED <<http, sent, ws, pos, call_sid, gen, frames, rec, produced, responses, turn,
                   handled, active, static>>

\* ---------------------------------------- generate_ai_response (39-59)
\* what gemini_model.generate_content / response.text does: an answer with
\* some text, or an exception (timeout, engine error, answer without parts)
EngineReplies == {[ok |-> TRUE, text |-> t] : t \in RawTexts}
                 \cup {[ok |-> FALSE, text |-> <<>>]}

\* mutant: the answer is not trimmed
generate_ai_response_no_strip(reply) ==
    IF reply.ok THEN reply.text ELSE Fallback

\* mutant: the failure is not replaced by the apology
generate_ai_response_no_fallback(reply) ==
    IF reply.ok THEN Strip(reply.text) ELSE reply.text

\* lines 52-59: the value returned
generate_ai_response(reply) ==
    IF reply.ok THEN Strip(reply.text) ELSE Fallback

\* "if ai_response_text:" (line 131)
ProceedsToSynthesis(text) == text # <<>>

GenerateReturns ==
    /\ pc = "GENERATING"
    /\ \E reply \in EngineReplies :
         LET text == generate_ai_response(reply)
             done == [turn EXCEPT !.gout = IF reply.ok THEN "ok" ELSE "failed",
                                  !.raw = reply.text, !.text = text] IN
         IF ProceedsToSynthesis(text)
         THEN \* line 132: text_to_speech_google(ai_response_text, call_sid)
              /\ pc' = "SYNTHESIZING"
              /\ turn' = [done EXCEPT !.stage = "SYNTHESIZING", !.ssid = call_sid,
                                      !.stext = text, !.sout = "pending"]
              /\ UNCHANGED active
         ELSE /\ pc' = "AWAIT_TRANSCRIPT"
              /\ turn' = [done EXCEPT !.stage = "DONE"]
              /\ active' = active \ {turn.no}
    /\ UNCHANGED <<http, error, sent, ws, pos, call_sid, gen, frames, rec, produced, responses, handled, static>>

\* ---------------------------------------- text_to_speech_google (61-79)
\* "ok"; "engine error": synthesize_speech or open raises, the file is not
\* touched (lines 68, 71); "write error": write raises after open has
\* truncated the file (line 72)
SynthOutcomes == {"ok", "engine error", "write error"}

\* mutant: the URL does not name the call
text_to_speech_google_one_name(outcome, sid) ==
    IF outcome = "ok" THEN AudioUrl(NoSid) ELSE NoUrl

\* lines 74-79: the value returned
text_to_speech_google(outcome, sid) ==
    IF outcome = "ok" THEN AudioUrl(sid) ELSE NoUrl

\* lines 70-72: the file after the call
WrittenFile(outcome, text, old) ==
    IF outcome = "ok" THEN [exists |-> TRUE, audio |-> text]
    ELSE IF outcome = "write error" THEN [exists |-> TRUE, audio |-> <<>>]
    ELSE old

\* mutant: the result of the synthesis is not tested
ProceedsToInjectionAlways(url) == TRUE

\* mutant: the injection is left out once the generator has ended
ProceedsToInjectionUnlessStopped(url) == url # NoUrl /\ gen = "running"

\* "if audio_url:" (line 133)
ProceedsToInjection(url) == url # NoUrl

SynthesisReturns ==
    /\ pc = "SYNTHESIZING"
    /\ \E outcome \in SynthOutcomes :
         LET sid == turn.ssid
             url == text_to_speech_google(outcome, sid)
             name == AudioFilename(sid)
             done == [turn EXCEPT !.sout = outcome, !.url = url] IN
         /\ static' = [static EXCEPT ![name] = WrittenFile(outcome, turn.stext, @)]
         /\ IF ProceedsToInjection(url)
            THEN \* line 134: play_audio_in_call(call_sid, audio_url)
                 /\ pc' = "INJECTING"
                 /\ turn' = [done EXCEPT !.stage = "INJECTING", !.plays = @ + 1,
                                         !.psid = call_sid, !.purl = url,
                                         !.pout = "pending"]
                 /\ UNCHANGED active
            ELSE /\ pc' = "AWAIT_TRANSCRIPT"
                 /\ turn' = [done EXCEPT !.stage = "DONE"]
                 /\ active' = active \ {turn.no}
    /\ UNCHANGED <<http, error, sent, ws, pos, call_sid, gen, frames, rec, produced, responses, handled>>

\* ------------------------------------------- play_audio_in_call (81-89)
\* the provider updates the call, or raises: "not in-progress" when the call
\* has ended, "error" for anything else
PlayOutcomes == {"ok", "not in-progress", "error"}

\* mutant: the exception of an ended call leaves play_audio_in_call and ends
\* the handler at line 135
AfterPlayPropagates(outcome) ==
    IF outcome = "not in-progress" THEN "CLOSED" ELSE "AWAIT_TRANSCRIPT"

\* mutant: only the exception of an ended call is caught, any other one ends
\* the handler
AfterPlayErrorIsFatal(outcome) ==
    IF outcome = "error" THEN "CLOSED" ELSE "AWAIT_TRANSCRIPT"

\* lines 87-89: every exception is caught, so the call returns to the loop;
\* the value is the loop's next position
AfterPlay(outcome) == "AWAIT_TRANSCRIPT"

\* lines 88-89: is the failure printed?
PlayLogged(outcome) == outcome = "error"

PlayReturns ==
    /\ pc = "INJECTING"
    /\ \E outcome \in PlayOutcomes :
         /\ pc' = AfterPlay(outcome)
         /\ turn' = [turn EXCEPT !.stage = "DONE", !.pout = outcome,
                                 !.plogged = PlayLogged(outcome)]
         /\ active' = active \ {turn.no}
    /\ UNCHANGED <<http, error, sent, ws, pos, call_sid, gen, frames, rec, produced, responses, handled, static>>

\* ---------------------------------------------------------- specification
Next ==
    \/ AudioGeneratorStep
    \/ RecognitionResponds
    \/ RecognitionEnds
    \/ RecognitionAborts
    \/ NextResponse
    \/ LoopEnds
    \/ LoopRaises
    \/ GenerateReturns
    \/ SynthesisReturns
    \/ PlayReturns

Spec == Init /\ [][Next]_vars

\* the handler's thread, the request consumer, the engine and the adapters
\* all keep running: some step that can be taken is eventually taken
FairSpec == Spec /\ WF_vars(Next)


\* ===================================================================
\* The /make_call route (lines 140-163)
\* ===================================================================

\* the variables of the /stream handler, which the route does not touch
StreamVars == <<ws, pos, call_sid, gen, frames, rec, sent, produced, responses, pc, turn,
                handled, active, static, error>>

\* phone numbers a request may carry
Numbers == { <<"+", "1">>, <<"+", "2">> }

\* JSON bodies of a request: {} , {"number": ""} and {"number": n}
Bodies ==
    {[has |-> FALSE, number |-> <<>>]} \cup
    {[has |-> TRUE, number |-> n] : n \in Numbers \cup {<<>>}}

\* request.json.get('number') (line 143): None when the key is absent
get_number(body) ==
    IF body.has THEN [null |-> FALSE, str |-> body.number]
    ELSE [null |-> TRUE, str |-> <<>>]

\* mutant: only a missing key counts as "not provided"
NotProvidedNoneOnly(v) == v.null

\* "not number_to_call" (line 144): None and the empty string are falsy
NotProvided(v) == v.null \/ v.str = <<>>

\* line 147
stream_url == <<"wss://", RENDER_APP_URL, "/stream">>

\* identifiers the provider gives to created calls (call.sid, line 159)
ProviderSids == {"CA1", "CA2"}

\* what twilio_client.calls.create does (line 158): returns a call or raises
CreateOutcomes ==
    {[raised |-> FALSE, sid |-> c, e |-> ""] : c \in ProviderSids} \cup
    {[raised |-> TRUE, sid |-> "", e |-> "refused"]}

\* mutant: a provider error is answered like a success
ReplyAfterCreateAlwaysOk(outcome) ==
    [status |-> 200, text |-> <<"Call initiated with SID: ", outcome.sid>>]

\* lines 157-163: the answer after the provider call
ReplyAfterCreate(outcome) ==
    IF outcome.raised
    THEN [status |-> 500, text |-> <<"Error initiating call: ", outcome.e>>]
    ELSE [status |-> 200, text |-> <<"Call initiated with SID: ", outcome.sid>>]

\* line 145
ReplyNotProvided == [status |-> 400, text |-> <<"Error: 'number' not provided.", "">>]

\* lines 143-158: a request arrives; without a number it is answered at once,
\* otherwise the provider is called.  created records each invocation of
\* twilio_client.calls.create with the request it was made for.
MakeCallReceives ==
    /\ http.pc = "idle"
    /\ Len(http.replies) < MaxReqs
    /\ \E body \in Bodies :
          LET number_to_call == get_number(body)
              req == Len(http.replies) + 1 IN
          IF NotProvided(number_to_call)
          THEN http' = [http EXCEPT
                          !.replies = Append(@, [body |-> body, reply |-> ReplyNotProvided])]
          ELSE http' = [http EXCEPT
                          !.pc = "creating",
                          !.body = body,
                          !.number_to_call = number_to_call.str,
                          !.created = Append(@, [req |-> req,
                                                 to |-> number_to_call.str,
                                                 url |-> stream_url,
                                                 outcome |-> <<>>])]
    /\ UNCHANGED StreamVars

\* lines 158-163: the provider answers and the route replies
MakeCallReturns ==
    /\ http.pc = "creating"
    /\ \E outcome \in CreateOutcomes :
          http' = [http EXCEPT
                     !.pc = "idle",
                     !.body = <<>>,
                     !.number_to_call = <<>>,
                     !.created[Len(http.created)].outcome = <<outcome>>,
                     !.replies = Append(@, [body |-> http.body,
                                            reply |-> ReplyAfterCreate(outcome)])]
    /\ UNCHANGED StreamVars

\* the route runs on its own; no socket is open
InitHttp == Init /\ ws = <<>>

NextHttp ==
    \/ MakeCallReceives
    \/ MakeCallReturns

SpecHttp == InitHttp /\ [][NextHttp]_vars


\* ===================================================================
\* Properties
\* ===================================================================

\* the transcripts of the responses the loop acts on (lines 126-127)
TranscriptsOf(rs) ==
    LET fin == SelectSeq(rs, LAMBDA r : ~Skipped(r)) IN
    [i \in 1..Len(fin) |-> fin[i].results[1].alternatives[1].transcript]

\* the callSid of the last start event among the first n messages, NoSid if
\* there is none
RECURSIVE LastStartSid(_)
LastStartSid(n) ==
    IF n = 0 THEN NoSid
    ELSE IF ws[n].json /\ ws[n].event = "start" THEN ws[n].callSid
    ELSE LastStartSid(n - 1)

TypeOK ==
    /\ pos \in 0..Len(ws)
    /\ call_sid \in Sids \cup {NoSid}
    /\ gen \in {"running", "done", "raised"}
    /\ rec \in {"open", "ended", "aborted"}
    /\ pc \in Busy \cup {"AWAIT_TRANSCRIPT", "CLOSED"}
    /\ sent \in 0..MaxResp
    /\ Len(produced) <= sent
    /\ turn.stage \in Busy \cup {"NONE", "DONE"}

\* C1: turns never overlap: at most one turn is in flight, it is the turn of
\* the latest transcript taken, and every earlier transcript's turn has
\* finished before an adapter is invoked for the next one.
C1_SequentialTurns ==
    /\ Cardinality(active) <= 1
    /\ active \subseteq {Len(handled)}
    /\ (pc \in Busy) <=> (active # {})
    /\ pc \in Busy => turn.no = Len(handled) /\ turn.stage = pc

\* a second turn is in flight after the first one finished
C1_Witness ==
    /\ Len(handled) = 2
    /\ pc = "INJECTING"
    /\ active = {2}


\* the positions of the well-formed media events that follow a start event
\* and come before the first stop event
DueMedia ==
    {i \in 1..Len(ws) :
        /\ ws[i].json /\ ws[i].event = "media" /\ B64Valid(ws[i].payload)
        /\ \E j \in 1..(i - 1) : ws[j].json /\ ws[j].event = "start"
        /\ \A k \in 1..(i - 1) : ~(ws[k].json /\ ws[k].event = "stop")}

\* frames holds each frame at most once, in the order of the socket
FramesInOrder ==
    \A a, b \in 1..Len(frames) : a < b => frames[a] < frames[b]

\* C2: the media events that follow a start event are yielded as decoded
\* frames in the order received, each exactly once, up to the first stop event
\* or the closure of the socket: once audio_generator has finished, every such
\* frame has been yielded.
C2_AllMediaYielded ==
    /\ FramesInOrder
    /\ gen # "running" =>
          \A i \in DueMedia : \E n \in 1..Len(frames) : frames[n] = b64decode(ws[i].payload)

\* C3: in a turn where text_to_speech_google fails (returns no asset),
\* play_audio_in_call is not invoked.
C3_NoPlayAfterSynthesisFailure ==
    turn.sout \in {"engine error", "write error"} =>
        /\ turn.url = NoUrl
        /\ turn.plays = 0
        /\ turn.pout = "none"
        /\ turn.stage = "DONE"
        /\ pc # "INJECTING"

\* a turn whose synthesis failed has finished
C3_Witness ==
    /\ turn.sout = "write error"
    /\ turn.stage = "DONE"
    /\ pc = "AWAIT_TRANSCRIPT"

\* C4: in a turn where the generation engine fails, generate_ai_response
\* returns the fallback apology, synthesis is called with exactly that text,
\* and play_audio_in_call is never called without text or without an asset.
C4_FallbackIsSynthesized ==
    /\ turn.gout = "failed" =>
          /\ turn.text = Fallback
          /\ turn.sout # "none"
          /\ turn.stext = Fallback
    /\ turn.plays > 0 =>
          /\ turn.stext # <<>>
          /\ turn.purl # NoUrl

\* the fallback text of a failed generation is being played
C4_Witness ==
    /\ turn.gout = "failed"
    /\ turn.stext = Fallback
    /\ pc = "INJECTING"


AllSpaces(s) == \A i \in 1..Len(s) : IsSpace(s[i])

NoOuterSpace(s) == s = <<>> \/ (~IsSpace(s[1]) /\ ~IsSpace(s[Len(s)]))

\* the turn has received the result of generate_ai_response
Generated == turn.gout \in {"ok", "failed"}

\* C5 as stated: generate_ai_response returns the fallback apology on every
\* failure kind, an empty or whitespace-only answer included, so its result
\* is never empty and no turn ends at the generation step.
C5_NeverEmpty ==
    Generated =>
        /\ turn.text # <<>>
        /\ (turn.gout = "failed" \/ AllSpaces(turn.raw)) => turn.text = Fallback
        /\ turn.sout # "none"

\* C5 amended: the fallback apology is returned when the engine call raises;
\* an answer is returned trimmed, so an empty or whitespace-only answer gives
\* the empty text, and that turn ends without synthesis and without playback.
C5_FallbackOnExceptionOnly ==
    Generated =>
        /\ turn.gout = "failed" => turn.text = Fallback
        /\ turn.gout = "ok" =>
              /\ NoOuterSpace(turn.text)
              /\ (turn.text = <<>>) <=> AllSpaces(turn.raw)
        /\ turn.text = <<>> =>
              /\ turn.stage = "DONE"
              /\ turn.sout = "none"
              /\ turn.plays = 0
        /\ turn.text # <<>> => turn.sout # "none"

\* the engine answered with white space only and the turn ended there
C5_Witness ==
    /\ turn.gout = "ok"
    /\ turn.raw # <<>>
    /\ AllSpaces(turn.raw)
    /\ turn.text = <<>>
    /\ turn.stage = "DONE"

\* C6: when play_audio_in_call is answered "not in-progress" (the call has
\* ended), it returns normally: the loop is back at the for statement, ready
\* for the next transcript, the handler is not ended and nothing is printed.
C6_EndedCallIsNoFailure ==
    [][(turn.pout = "pending" /\ turn'.pout = "not in-progress") =>
          /\ pc' = "AWAIT_TRANSCRIPT"
          /\ turn'.stage = "DONE"
          /\ ~turn'.plogged
          /\ active' = {}]_vars

\* playback against an ended call has returned and the next transcript is
\* waiting to be taken
C6_Witness ==
    /\ turn.pout = "not in-progress"
    /\ pc = "AWAIT_TRANSCRIPT"
    /\ TranscriptsOf(responses) # <<>>
    /\ rec = "open"


\* C7 as stated: every finalized transcript the recognition stream produced
\* gets a turn: when the handler has returned, none was dropped (stated for
\* the runs in which audio_generator did not raise).
C7_NoneDropped ==
    (pc = "CLOSED" /\ gen # "raised") => handled = TranscriptsOf(produced)

\* C7 amended: the transcripts are given turns in receipt order, one turn
\* each; those that arrive during a turn are held and taken after it, and the
\* running turn is the turn of the last transcript taken.  None is dropped
\* when the recognition stream ends normally; when it aborts, the transcripts
\* not yet taken are lost with it.
C7_InOrderUntilAbort ==
    /\ TranscriptsOf(produced) = handled \o TranscriptsOf(responses)
    /\ (pc = "CLOSED" /\ rec = "ended") => handled = TranscriptsOf(produced)
    /\ pc = "CLOSED" => (rec = "ended" \/ rec = "aborted")
    /\ pc \in Busy => turn.transcript = handled[Len(handled)]

\* the second transcript arrived during the first turn and is held until
\* that turn, now in its last adapter call, has finished
C7_Witness ==
    /\ handled = <<1>>
    /\ turn.no = 1
    /\ pc = "INJECTING"
    /\ TranscriptsOf(responses) = <<2>>

\* C8: a malformed envelope fails only that message: audio_generator is not
\* ended by it, goes on with the messages that follow, and the recognition
\* stream that feeds the turn loop is not ended by it.
C8_MalformedIsSkipped ==
    \A i \in 1..pos : Raises(ws[i]) => (gen # "raised" /\ rec # "aborted")

\* C9: the streaming stage is not blocked by a turn: while the turn loop is
\* inside one of the three adapter calls and the stream is live, the next
\* pass of audio_generator (receive the next socket message, forward its
\* frame) can be taken.
C9_StreamingNotBlocked ==
    (pc \in Busy /\ gen = "running" /\ rec = "open") => ENABLED AudioGeneratorStep

\* a start event was consumed while the turn was inside its adapter calls, and
\* the stream is still live
C9_Witness ==
    /\ pc = "INJECTING"
    /\ turn.gsid # call_sid
    /\ gen = "running"
    /\ rec = "open"
    /\ frames # <<>>

C11_SilentWithoutResults ==
    produced = <<>> =>
        /\ handled = <<>>
        /\ turn = NoTurn
        /\ active = {}
        /\ pc \in {"AWAIT_TRANSCRIPT", "CLOSED"}
        /\ \A f \in FileNames : static[f] = NoFile
        /\ (pc = "CLOSED" /\ rec = "ended") => ~error

\* the stream sent only responses without a transcript, the loop skipped them
\* all and the handler has returned
C11_Witness ==
    /\ sent = MaxResp
    /\ produced = <<>>
    /\ responses = <<>>
    /\ frames # <<>>
    /\ rec = "ended"
    /\ pc = "CLOSED"
    /\ ~error


\* the invocations of twilio_client.calls.create made for request i
CreatedFor(i) == {j \in DOMAIN http.created : http.created[j].req = i}

\* C12: a request whose body carries no number (the key is absent, as in {},
\* or its value is empty) is answered 400 and the provider's call creation is
\* never invoked for it.
C12_NoNumberIs400 ==
    \A i \in DOMAIN http.replies :
        (~http.replies[i].body.has \/ http.replies[i].body.number = <<>>) =>
            /\ http.replies[i].reply.status = 400
            /\ CreatedFor(i) = {}

\* a request with body {} and one with an empty number were answered, nothing
\* was created
C12_Witness ==
    /\ Len(http.replies) = 2
    /\ ~http.replies[1].body.has
    /\ http.replies[2].body.has
    /\ http.replies[2].reply.status = 400
    /\ http.created = <<>>

\* C13: a request with a number invokes call creation exactly once, with that
\* number; it is answered 200 with the provider's call identifier when the
\* provider succeeds and 500 when the provider raises; every answer is 200,
\* 400 or 500.
C13_CreateOnceThen200Or500 ==
    /\ \A i \in DOMAIN http.replies :
         LET r == http.replies[i] IN
         /\ r.reply.status \in {200, 400, 500}
         /\ (r.body.has /\ r.body.number # <<>>) =>
              /\ Cardinality(CreatedFor(i)) = 1
              /\ \A j \in CreatedFor(i) :
                   LET c == http.created[j] IN
                   /\ c.to = r.body.number
                   /\ Len(c.outcome) = 1
                   /\ c.outcome[1].raised => r.reply.status = 500
                   /\ ~c.outcome[1].raised =>
                        /\ r.reply.status = 200
                        /\ r.reply.text[2] = c.outcome[1].sid
    /\ http.pc = "creating" =>
         Cardinality(CreatedFor(Len(http.replies) + 1)) = 1

\* one request was answered 200 with the identifier the provider gave, another
\* 500 after the provider raised
C13_Witness ==
    /\ \E i \in DOMAIN http.replies :
         /\ http.replies[i].reply.status = 200
         /\ http.replies[i].reply.text[2] = "CA2"
    /\ \E i \in DOMAIN http.replies : http.replies[i].reply.status = 500
    /\ Len(http.created) = 2


\* a stop event has been read from the socket
StopReceived == \E i \in 1..pos : ws[i].event = "stop"

\* C14: once a stop event is received or the socket closes, audio_generator
\* has ended: it yields no further frame and reads no further message; the
\* handler then eventually reaches CLOSED, and from CLOSED no turn starts.
C14_StopEndsCall ==
    /\ [](StopReceived => gen = "done")
    /\ [][gen = "done" => (gen' = "done" /\ frames' = frames /\ pos' = pos)]_vars
    /\ (gen = "done") ~> (pc = "CLOSED")
    /\ [][pc = "CLOSED" => (pc' = "CLOSED" /\ handled' = handled /\ turn' = turn)]_vars

\* a stop event was read with a message behind it still unread, a turn was
\* made and the handler has returned
C14_Witness ==
    /\ StopReceived
    /\ pos < Len(ws)
    /\ ws[pos + 1].event = "media"
    /\ gen = "done"
    /\ handled # <<>>
    /\ pc = "CLOSED"


\* a step in which an adapter is invoked: generate_ai_response (line 130),
\* text_to_speech_google (line 132) or play_audio_in_call (line 134)
AdapterInvoked == pc' \in Busy /\ pc' # pc

C16_FailedTurnStops ==
    turn.gout = "failed" => turn.sout = "none"

\* C16 amended: no adapter failure ends the call.  A failed generation is
\* replaced by the apology and the turn goes on with it; a failed synthesis
\* ends the turn without playback; a failed playback is the turn's last
\* step.  A turn never leads to CLOSED, the handler's error is printed only
\* for an aborted stream, the loop is back at AWAIT_TRANSCRIPT after the
\* failure, and the turn after a failed one is a new, whole turn for the next
\* transcript.
C16_FailureIsNotFatal ==
    /\ [](turn.gout = "failed" => (turn.text = Fallback /\ turn.sout # "none"))
    /\ [](turn.sout \in {"engine error", "write error"} =>
            (turn.pout = "none" /\ turn.plays = 0 /\ turn.stage = "DONE"
             /\ pc \in {"AWAIT_TRANSCRIPT", "CLOSED"}))
    /\ [](turn.pout \in {"error", "not in-progress"} =>
            (turn.stage = "DONE" /\ pc \in {"AWAIT_TRANSCRIPT", "CLOSED"}))
    /\ [][(pc \in Busy) => (pc' # "CLOSED")]_vars
    /\ [](error => rec = "aborted")
    /\ [][turn'.no # turn.no =>
            (/\ pc = "AWAIT_TRANSCRIPT"
             /\ TranscriptsOf(responses) # <<>>
             /\ turn' = NewTurn(turn.no + 1, TranscriptsOf(responses)[1], call_sid)
             /\ pc' = "GENERATING")]_vars
    /\ []((pc = "CLOSED" /\ ~error) => handled = TranscriptsOf(produced))

\* the second transcript is in its turn after a first turn was made, the
\* stream is still open, and this turn's generation has failed and gone on
\* to the synthesis
C16_Witness ==
    /\ turn.no = 2
    /\ turn.gout = "failed"
    /\ pc = "SYNTHESIZING"
    /\ rec = "open"


\* the positions of the start events the peer sends
Starts == {i \in 1..Len(ws) : ws[i].event = "start"}

\* the peer sends exactly one start event, and sends it before any media
OneStartBeforeMedia ==
    /\ Cardinality(Starts) = 1
    /\ \A i \in 1..Len(ws) : ws[i].event = "media" => \E j \in Starts : j < i

\* the call identifier of the start event, for such a peer
OwnSid == ws[CHOOSE i \in Starts : TRUE].callSid

\* the asset files that exist
Written == {f \in FileNames : static[f].exists}

CallStopped == gen = "done"

C19_SameSidInTurn ==
    /\ turn.sout # "none" => turn.ssid = turn.gsid
    /\ turn.pout # "none" => turn.psid = turn.gsid

\* C19 amended: each adapter is given the value call_sid holds when it is
\* invoked; the asset is named by the value given to the synthesis and that
\* asset's URL is what is given to the injection.  The three values are the
\* same when audio_generator reads no start event during the turn, and may
\* differ when it does.
C19_SidReadAtEachInvocation ==
    /\ [][(pc' = "GENERATING" /\ pc # pc') => turn'.gsid = call_sid]_vars
    /\ [][(pc' = "SYNTHESIZING" /\ pc # pc') =>
            (turn'.ssid = call_sid /\ turn'.gsid = turn.gsid)]_vars
    /\ [][(pc' = "INJECTING" /\ pc # pc') =>
            (/\ turn'.psid = call_sid
             /\ turn'.ssid = turn.ssid
             /\ turn'.gsid = turn.gsid
             /\ turn'.purl = AudioUrl(turn.ssid)
             /\ static'[AudioFilename(turn.ssid)].exists)]_vars
    /\ []((turn.stage # "NONE" /\ turn.gsid = call_sid) =>
            (/\ turn.sout # "none" => turn.ssid = turn.gsid
             /\ turn.pout # "none" => turn.psid = turn.gsid))

\* a second start event was read between the call of generate_ai_response
\* and the call of text_to_speech_google: the asset is named by the second
\* identifier and played on the second call
C19_Witness ==
    /\ turn.gsid # NoSid
    /\ turn.ssid # turn.gsid
    /\ turn.psid = turn.ssid
    /\ turn.purl = AudioUrl(turn.ssid)
    /\ pc = "INJECTING"


\* a step in which audio_generator reads a well-formed message whose event is
\* none of start, media, stop
ReadsOtherEvent ==
    /\ pos' = pos + 1
    /\ ws[pos'].json
    /\ ws[pos'].event \notin {"start", "media", "stop"}

\* C20: a well-formed message whose event is none of start, media, stop is
\* ignored: no frame is yielded, call_sid keeps its value, audio_generator
\* goes on running and the recognition stream stays as it was.
C20_OtherEventIgnored ==
    [][ReadsOtherEvent =>
         (/\ frames' = frames
          /\ call_sid' = call_sid
          /\ gen = "running" /\ gen' = "running"
          /\ rec' = rec)]_vars

\* a mark event was read after a start event; the call identifier is still
\* the start event's and the media behind the mark was yielded
C20_Witness ==
    /\ pos = 3
    /\ ws[1].event = "start"
    /\ ws[2].event = "mark"
    /\ call_sid = ws[1].callSid
    /\ frames = <<b64decode(ws[3].payload)>>
    /\ gen = "running"

====
